---------------------------- MODULE Spec2Model ----------------------------
(***************************************************************************)
(* Model of financeservice/app/domain/service/ratio_service.py             *)
(* (class RatioService).                                                   *)
(*                                                                         *)
(* Representation.                                                         *)
(*  - A Python float is modelled by an exact rational <<n, d>> in lowest   *)
(*    terms with d > 0; amounts read from filings are whole numbers and    *)
(*    are kept as integers.  IEEE rounding is not modelled.                *)
(*  - Python None is <<>> (both for a raw amount that is NULL and for an   *)
(*    Optional[float] result); a raw amount v is <<v>>.                    *)
(*  - A dict is a function; d.get(k, default) is Get(d, k, default).       *)
(*  - A fiscal year (bsns_year, a decimal string) is modelled by the       *)
(*    number it denotes; sorted() on years compares their digit strings.   *)
(*  - Account names are the Korean labels of the source, written here in   *)
(*    English: total_assets (jasan-chonggye), total_liabilities            *)
(*    (buchae-chonggye), current_assets (yudong-jasan),                    *)
(*    current_liabilities (yudong-buchae), total_equity (jabon-chonggye),  *)
(*    revenue (maechul-aek), operating_profit (yeongeop-iik),              *)
(*    net_income (danggi-sun-iik).                                         *)
(***************************************************************************)
EXTENDS Integers, Sequences, FiniteSets, TLC

VARIABLES
    pc,             \* position of the operation under way
    current,        \* _calculate_growth_rate: argument current
    previous,       \* _calculate_growth_rate: argument previous
    growth,         \* _calculate_growth_rate: returned value
    year_data,      \* _calculate_ratios: argument year_data
    ratios,         \* _calculate_ratios: returned dict (or Raised)
    inline_ratios,  \* the same year's ratios by get_financial_metrics' inline code
    company_name,   \* get_financial_metrics: argument company_name
    n_items,        \* get_financial_metrics: items of financial_data read so far
    seen,           \* the line items read so far, in their order
    years_data,     \* get_financial_metrics: years_data
    all_years,      \* get_financial_metrics: all_years
    all_year_data,  \* get_financial_metrics: all_year_data
    target_years,   \* get_financial_metrics: target_years
    response,       \* get_financial_metrics: the FinancialMetricsResponse returned
    corp_code,      \* calculate_and_save_ratios: argument corp_code
    bsns_year,      \* calculate_and_save_ratios: argument bsns_year
    n_rows,         \* calculate_and_save_ratios: rows of the query result read so far
    financial_data, \* calculate_and_save_ratios: financial_data
    year_order,     \* the keys of financial_data in insertion order
    current_year,   \* calculate_and_save_ratios: current_year
    all_ratios,     \* calculate_and_save_ratios: all_ratios
    year_index,     \* position of the loop over financial_data.items()
    n_writes,       \* INSERTs executed (or attempted) in this run
    session,        \* the metrics table as db_session sees it inside its transaction
    metrics,        \* the committed metrics table
    metrics_before, \* the committed metrics table when the run began
    latest,         \* per key, the last non-null value computed by a committed run
    null_written,   \* whether an INSERT was ever executed with a null value
    result          \* calculate_and_save_ratios: whether it raised, and the value returned

growthVars == <<current, previous, growth>>
ratioVars == <<year_data, ratios, inline_ratios>>
gfmVars ==
    <<company_name, n_items, seen, years_data, all_years, all_year_data,
      target_years, response>>
saveVars ==
    <<corp_code, bsns_year, n_rows, financial_data, year_order, current_year,
      all_ratios, year_index, n_writes, session, metrics, metrics_before,
      latest, null_written, result>>

vars == <<pc, growthVars, ratioVars, gfmVars, saveVars>>

-----------------------------------------------------------------------------
(* Bounds of the model *)

\* amounts handed to _calculate_growth_rate range over -MaxAmount..MaxAmount
MaxAmount == 50

\* get_financial_metrics reads at most MaxItems line items
MaxItems == 4

\* the filings are of the fiscal years FirstYear..LastYear
FirstYear == 2020
LastYear == 2023

\* the two folds of line items are compared on at most MaxFold items
MaxFold == 3

\* a query of calculate_and_save_ratios yields at most MaxRows rows
MaxRows == 2

-----------------------------------------------------------------------------
(* Python values *)

None == <<>>

Abs(x) == IF x < 0 THEN -x ELSE x

RECURSIVE Gcd(_, _)
Gcd(a, b) == IF b = 0 THEN a ELSE Gcd(b, a % b)

\* the float n / d (d # 0), as a rational in lowest terms
Rat(n, d) ==
    LET g == Gcd(Abs(n), Abs(d))
        s == IF d < 0 THEN -1 ELSE 1
    IN  <<(s * n) \div g, (s * d) \div g>>

\* the float of a whole number
Whole(n) == <<n, 1>>

\* float * 100
Times100(q) == Rat(q[1] * 100, q[2])

\* d.get(k, default)
Get(d, k, default) == IF k \in DOMAIN d THEN d[k] ELSE default

\* an exception leaving the function
Raised == <<"raised">>

\* the same, where the function returns a dict
RaisedDict == [exception |-> "TypeError"]

\* the outcome of a call of calculate_and_save_ratios: no value yet, or the
\* exception raised again at line 122
NoResult == [raised |-> FALSE, value |-> <<>>]
RaisedResult == [raised |-> TRUE, value |-> <<>>]

-----------------------------------------------------------------------------
(* Account and metric names *)

TotalAssets == "total_assets"
TotalLiabilities == "total_liabilities"
CurrentAssets == "current_assets"
CurrentLiabilities == "current_liabilities"
TotalEquity == "total_equity"
Revenue == "revenue"
OperatingProfit == "operating_profit"
NetIncome == "net_income"

Accounts ==
    {TotalAssets, TotalLiabilities, CurrentAssets, CurrentLiabilities,
     TotalEquity, Revenue, OperatingProfit, NetIncome}

-----------------------------------------------------------------------------
(* _safe_divide and _calculate_growth_rate *)

_safe_divide(numerator, denominator) ==
    IF denominator = 0 THEN None ELSE Rat(numerator, denominator)

\* a plausible bug: the signed base instead of abs(previous)
_calculate_growth_rate_signed(cur, prev) ==
    IF prev = 0 THEN None
    ELSE IF prev < 0 /\ cur > 0 THEN Whole(100)
    ELSE IF prev > 0 /\ cur < 0 THEN Whole(-100)
    ELSE Times100(Rat(cur - prev, prev))

_calculate_growth_rate(cur, prev) ==
    IF prev = 0 THEN None
    ELSE IF prev < 0 /\ cur > 0 THEN Whole(100)
    ELSE IF prev > 0 /\ cur < 0 THEN Whole(-100)
    ELSE Times100(Rat(cur - prev, Abs(prev)))

-----------------------------------------------------------------------------
(* _calculate_ratios *)

\* year_data.get(account, {}).get(field, 0)
Amount(yd, account, field) == Get(Get(yd, account, <<>>), field, 0)

\* a plausible bug: the quotient taken without the "if ... != 0" guard
GuardedPercent_unguarded(n, d, guard) ==
    LET q == _safe_divide(n, d)
    IN  IF q = None THEN Raised ELSE Times100(q)

\* self._safe_divide(n, d) * 100 if guard != 0 else None
\* (None * 100 is a TypeError, which leaves _calculate_ratios)
GuardedPercent(n, d, guard) ==
    IF guard # 0
    THEN LET q == _safe_divide(n, d)
         IN  IF q = None THEN Raised ELSE Times100(q)
    ELSE None

RatioNames ==
    {"debt_ratio", "current_ratio", "debt_dependency", "operating_profit_ratio",
     "net_profit_ratio", "roe", "roa"}

\* the dict literal of lines 179-195
RatioDict(yd) ==
    LET total_assets == Amount(yd, TotalAssets, "thstrm")
        total_liabilities == Amount(yd, TotalLiabilities, "thstrm")
        current_assets == Amount(yd, CurrentAssets, "thstrm")
        current_liabilities == Amount(yd, CurrentLiabilities, "thstrm")
        total_equity == Amount(yd, TotalEquity, "thstrm")
        revenue == Amount(yd, Revenue, "thstrm")
        operating_profit == Amount(yd, OperatingProfit, "thstrm")
        net_income == Amount(yd, NetIncome, "thstrm")
        prev_revenue == Amount(yd, Revenue, "frmtrm")
        prev_operating_profit == Amount(yd, OperatingProfit, "frmtrm")
        prev_net_income == Amount(yd, NetIncome, "frmtrm")
    IN  [debt_ratio |-> GuardedPercent(total_liabilities, total_equity, total_equity),
         current_ratio |-> GuardedPercent(current_assets, current_liabilities, current_liabilities),
         debt_dependency |-> GuardedPercent(total_liabilities, total_assets, total_assets),
         operating_profit_ratio |-> GuardedPercent(operating_profit, revenue, revenue),
         net_profit_ratio |-> GuardedPercent(net_income, revenue, revenue),
         roe |-> GuardedPercent(net_income, total_equity, total_equity),
         roa |-> GuardedPercent(net_income, total_assets, total_assets),
         sales_growth |-> _calculate_growth_rate(revenue, prev_revenue),
         operating_profit_growth |-> _calculate_growth_rate(operating_profit, prev_operating_profit),
         eps_growth |-> _calculate_growth_rate(net_income, prev_net_income)]

\* try: ... return ratios / except Exception: raise
_calculate_ratios(yd) ==
    LET d == RatioDict(yd)
    IN  IF \E k \in DOMAIN d : d[k] = Raised THEN RaisedDict ELSE d

-----------------------------------------------------------------------------
(* get_financial_metrics: the ratios of one target year (lines 272-336) *)

\* a plausible bug: 0 instead of None for a year without equity
InlineRatios_zero_equity(yd) ==
    LET total_assets == Amount(yd, TotalAssets, "thstrm")
        total_liabilities == Amount(yd, TotalLiabilities, "thstrm")
        current_assets == Amount(yd, CurrentAssets, "thstrm")
        current_liabilities == Amount(yd, CurrentLiabilities, "thstrm")
        total_equity == Amount(yd, TotalEquity, "thstrm")
        revenue == Amount(yd, Revenue, "thstrm")
        operating_profit == Amount(yd, OperatingProfit, "thstrm")
        net_income == Amount(yd, NetIncome, "thstrm")
    IN  [operatingMargin |->
            IF revenue # 0 THEN Times100(Rat(operating_profit, revenue)) ELSE None,
         netMargin |->
            IF revenue # 0 THEN Times100(Rat(net_income, revenue)) ELSE None,
         roe |->
            IF total_equity # 0 THEN Times100(Rat(net_income, total_equity)) ELSE Whole(0),
         debtRatio |->
            IF total_equity # 0 THEN Times100(Rat(total_liabilities, total_equity)) ELSE Whole(0),
         roa |->
            IF total_assets # 0 THEN Times100(Rat(net_income, total_assets)) ELSE None,
         currentRatio |->
            IF current_liabilities # 0
            THEN Times100(Rat(current_assets, current_liabilities)) ELSE None]

\* lines 276-328: the amounts default to 0, each pair of series shares a guard
InlineRatios(yd) ==
    LET total_assets == Amount(yd, TotalAssets, "thstrm")
        total_liabilities == Amount(yd, TotalLiabilities, "thstrm")
        current_assets == Amount(yd, CurrentAssets, "thstrm")
        current_liabilities == Amount(yd, CurrentLiabilities, "thstrm")
        total_equity == Amount(yd, TotalEquity, "thstrm")
        revenue == Amount(yd, Revenue, "thstrm")
        operating_profit == Amount(yd, OperatingProfit, "thstrm")
        net_income == Amount(yd, NetIncome, "thstrm")
    IN  [operatingMargin |->
            IF revenue # 0 THEN Times100(Rat(operating_profit, revenue)) ELSE None,
         netMargin |->
            IF revenue # 0 THEN Times100(Rat(net_income, revenue)) ELSE None,
         roe |->
            IF total_equity # 0 THEN Times100(Rat(net_income, total_equity)) ELSE None,
         debtRatio |->
            IF total_equity # 0 THEN Times100(Rat(total_liabilities, total_equity)) ELSE None,
         roa |->
            IF total_assets # 0 THEN Times100(Rat(net_income, total_assets)) ELSE None,
         currentRatio |->
            IF current_liabilities # 0
            THEN Times100(Rat(current_assets, current_liabilities)) ELSE None]

\* lines 330-336: a target year with no entry in all_year_data
NoRatios ==
    [operatingMargin |-> None, netMargin |-> None, roe |-> None,
     debtRatio |-> None, roa |-> None, currentRatio |-> None]

-----------------------------------------------------------------------------
(* Strings of digits: str(), int() and the order sorted() uses on them *)

Min(a, b) == IF a < b THEN a ELSE b

\* str(n) for n >= 0, as the sequence of its decimal digits
RECURSIVE StrOf(_)
StrOf(n) == IF n < 10 THEN <<n>> ELSE Append(StrOf(n \div 10), n % 10)

\* int(s) for a string of decimal digits
RECURSIVE IntOf(_)
IntOf(s) ==
    IF Len(s) = 0 THEN 0
    ELSE IntOf(SubSeq(s, 1, Len(s) - 1)) * 10 + s[Len(s)]

\* s < t as Python compares strings: by the first differing character,
\* a proper prefix being the smaller
RECURSIVE StrLess(_, _)
StrLess(s, t) ==
    IF Len(t) = 0 THEN FALSE
    ELSE IF Len(s) = 0 THEN TRUE
    ELSE IF s[1] # t[1] THEN s[1] < t[1]
    ELSE StrLess(Tail(s), Tail(t))

\* sorted(S, reverse=True) for a set of distinct strings
RECURSIVE SortedDesc(_)
SortedDesc(S) ==
    IF S = {} THEN <<>>
    ELSE LET m == CHOOSE x \in S : \A y \in S : y = x \/ StrLess(y, x)
         IN  <<m>> \o SortedDesc(S \ {m})

\* seq[:n]
Prefix(seq, n) == SubSeq(seq, 1, Min(n, Len(seq)))

\* seq[:-1]
DropLast(seq) == IF Len(seq) = 0 THEN <<>> ELSE SubSeq(seq, 1, Len(seq) - 1)

\* d[k] = v
Put(d, k, v) == [x \in DOMAIN d \cup {k} |-> IF x = k THEN v ELSE d[x]]

-----------------------------------------------------------------------------
(* get_financial_metrics: reading the line items (lines 207-225) *)

\* float(x) if x else 0
FloatIfTruthy(raw) == IF raw = None \/ raw = <<0>> THEN 0 ELSE raw[1]

\* the {"thstrm", "frmtrm", "bfefrmtrm"} dict of lines 221-225
GfmEntry(it) ==
    [thstrm |-> FloatIfTruthy(it.thstrm_amount),
     frmtrm |-> FloatIfTruthy(it.frmtrm_amount),
     bfefrmtrm |-> FloatIfTruthy(it.bfefrmtrm_amount)]

\* a plausible bug: the entry assigned without the "not in" test
GfmFoldItem_overwrite(yd, it) ==
    LET year == it.bsns_year
        accounts == Get(yd, year, <<>>)
    IN  Put(yd, year, Put(accounts, it.account_nm, GfmEntry(it)))

\* lines 215-225: one pass of the loop body on years_data
GfmFoldItem(yd, it) ==
    LET year == it.bsns_year
        accounts == Get(yd, year, <<>>)
    IN  IF it.account_nm \notin DOMAIN accounts
        THEN Put(yd, year, Put(accounts, it.account_nm, GfmEntry(it)))
        ELSE Put(yd, year, accounts)

-----------------------------------------------------------------------------
(* get_financial_metrics: the years (lines 230-265) *)

\* a plausible bug: the year before last taken as str(int(year) - 1) too
YearBefore_same(year, k) == StrOf(IntOf(year) - 1)

\* str(int(year) - k)
YearBefore(year, k) == StrOf(IntOf(year) - k)

\* a plausible bug: the current amounts copied into the earlier years
Implied_current(yd, year, field) ==
    LET filed == Get(yd, year, <<>>)
    IN  [a \in DOMAIN filed |-> [thstrm |-> Get(filed[a], "thstrm", 0)]]

\* lines 246-250 and 257-261: the accounts of the filing of `year`, each
\* with the amount of `field` as its "thstrm"
Implied(yd, year, field) ==
    LET filed == Get(yd, year, <<>>)
    IN  [a \in DOMAIN filed |-> [thstrm |-> Get(filed[a], field, 0)]]

\* a plausible bug: the filing of the year kept out when an implied entry
\* of the year is already there
OwnYear_keep_implied(ayd, yd, year) ==
    IF year \in DOMAIN yd /\ year \notin DOMAIN ayd
    THEN Put(ayd, year, yd[year]) ELSE ayd

\* lines 238-239
OwnYear(ayd, yd, year) ==
    IF year \in DOMAIN yd THEN Put(ayd, year, yd[year]) ELSE ayd

\* lines 236-261: one pass of the loop body on all_year_data
AnchorStep(ayd, yd, year) ==
    LET a1 == OwnYear(ayd, yd, year)
        prev_year == YearBefore(year, 1)
        a2 == IF prev_year \notin DOMAIN a1
              THEN Put(a1, prev_year, Implied(yd, year, "frmtrm")) ELSE a1
        prev_prev_year == YearBefore(year, 2)
    IN  IF prev_prev_year \notin DOMAIN a2
        THEN Put(a2, prev_prev_year, Implied(yd, year, "bfefrmtrm")) ELSE a2

\* lines 235-261: the loop over years, from its i-th element on
RECURSIVE AnchorLoop(_, _, _, _)
AnchorLoop(years, i, ayd, yd) ==
    IF i > Len(years) THEN ayd
    ELSE AnchorLoop(years, i + 1, AnchorStep(ayd, yd, years[i]), yd)

\* a plausible bug: the years taken oldest first (reverse=True left out)
AnchorYears_ascending(years_set) ==
    LET sorted_years == SortedDesc(years_set)
        n == Len(sorted_years)
        recent == Prefix(sorted_years, 3)
    IN  [i \in 1..Len(recent) |-> recent[Len(recent) + 1 - i]]

\* lines 231-232: sorted(all_years, reverse=True)[:3]
AnchorYears(years_set) == Prefix(SortedDesc(years_set), 3)

\* lines 231-261
AllYearData(years_set, yd) == AnchorLoop(AnchorYears(years_set), 1, <<>>, yd)

\* a plausible bug: the years left in the order of the dict
TargetYears_unsorted(ayd) ==
    LET full_years == SortedDesc(DOMAIN ayd)
        n == Len(full_years)
    IN  Prefix([i \in 1..n |-> full_years[n + 1 - i]], 3)

\* lines 264-265
TargetYears(ayd) == Prefix(SortedDesc(DOMAIN ayd), 3)

-----------------------------------------------------------------------------
(* get_financial_metrics: the series (lines 267-396) *)

EmptySeries ==
    [operatingMargin |-> <<>>, netMargin |-> <<>>, roe |-> <<>>,
     roa |-> <<>>, debtRatio |-> <<>>, currentRatio |-> <<>>]

\* the six lists, each with one value appended
AppendRatios(acc, r) ==
    [k \in DOMAIN acc |-> Append(acc[k], r[k])]

\* lines 272-336: the loop over target_years, from its i-th element on
RECURSIVE RatioLoop(_, _, _, _)
RatioLoop(ty, i, acc, ayd) ==
    IF i > Len(ty) THEN acc
    ELSE LET year == ty[i]
             r == IF year \in DOMAIN ayd THEN InlineRatios(ayd[year]) ELSE NoRatios
         IN  RatioLoop(ty, i + 1, AppendRatios(acc, r), ayd)

\* a plausible bug: the two amounts passed to _calculate_growth_rate swapped
PairGrowth_swapped(ayd, cur_year, prv_year) ==
    IF cur_year \in DOMAIN ayd /\ prv_year \in DOMAIN ayd
    THEN LET current_revenue == Amount(ayd[cur_year], Revenue, "thstrm")
             current_income == Amount(ayd[cur_year], NetIncome, "thstrm")
             prev_revenue == Amount(ayd[prv_year], Revenue, "thstrm")
             prev_income == Amount(ayd[prv_year], NetIncome, "thstrm")
         IN  [revenueGrowth |->
                 IF prev_revenue # 0
                 THEN _calculate_growth_rate(prev_revenue, current_revenue) ELSE None,
              netIncomeGrowth |->
                 IF prev_income # 0
                 THEN _calculate_growth_rate(prev_income, current_income) ELSE None]
    ELSE [revenueGrowth |-> None, netIncomeGrowth |-> None]

\* lines 344-375: the two growth values of the pair (current_year, prev_year)
PairGrowth(ayd, cur_year, prv_year) ==
    IF cur_year \in DOMAIN ayd /\ prv_year \in DOMAIN ayd
    THEN LET current_revenue == Amount(ayd[cur_year], Revenue, "thstrm")
             current_income == Amount(ayd[cur_year], NetIncome, "thstrm")
             prev_revenue == Amount(ayd[prv_year], Revenue, "thstrm")
             prev_income == Amount(ayd[prv_year], NetIncome, "thstrm")
         IN  [revenueGrowth |->
                 IF prev_revenue # 0
                 THEN _calculate_growth_rate(current_revenue, prev_revenue) ELSE None,
              netIncomeGrowth |->
                 IF prev_income # 0
                 THEN _calculate_growth_rate(current_income, prev_income) ELSE None]
    ELSE [revenueGrowth |-> None, netIncomeGrowth |-> None]

\* lines 339-375: the loop over range(len(target_years) - 1), from i on
\* (i counts from 1 here)
RECURSIVE GrowthLoop(_, _, _, _)
GrowthLoop(ty, i, acc, ayd) ==
    IF i > Len(ty) - 1 THEN acc
    ELSE LET g == PairGrowth(ayd, ty[i], ty[i + 1])
         IN  GrowthLoop(ty, i + 1,
                 [revenueGrowth |-> Append(acc.revenueGrowth, g.revenueGrowth),
                  netIncomeGrowth |-> Append(acc.netIncomeGrowth, g.netIncomeGrowth)],
                 ayd)

\* a plausible bug: the growth years not shortened (all of target_years)
GrowthYears_all(ty) == ty

\* line 389: target_years[:-1]
GrowthYears(ty) == DropLast(ty)

\* lines 377-396
MetricsResponse(name, ty, ayd) ==
    LET r == RatioLoop(ty, 1, EmptySeries, ayd)
        g == GrowthLoop(ty, 1, [revenueGrowth |-> <<>>, netIncomeGrowth |-> <<>>], ayd)
    IN  [companyName |-> name,
         financialMetrics |->
            [operatingMargin |-> r.operatingMargin, netMargin |-> r.netMargin,
             roe |-> r.roe, roa |-> r.roa, years |-> ty],
         growthData |->
            [revenueGrowth |-> g.revenueGrowth,
             netIncomeGrowth |-> g.netIncomeGrowth, years |-> GrowthYears(ty)],
         debtLiquidityData |->
            [debtRatio |-> r.debtRatio, currentRatio |-> r.currentRatio, years |-> ty]]

\* a plausible bug: the placeholder name of the router's sample response
_empty_metrics_response_unnamed(name) ==
    [companyName |-> "",
     financialMetrics |->
        [operatingMargin |-> <<>>, netMargin |-> <<>>, roe |-> <<>>,
         roa |-> <<>>, years |-> <<>>],
     growthData |->
        [revenueGrowth |-> <<>>, netIncomeGrowth |-> <<>>, years |-> <<>>],
     debtLiquidityData |->
        [debtRatio |-> <<>>, currentRatio |-> <<>>, years |-> <<>>]]

_empty_metrics_response(name) ==
    [companyName |-> name,
     financialMetrics |->
        [operatingMargin |-> <<>>, netMargin |-> <<>>, roe |-> <<>>,
         roa |-> <<>>, years |-> <<>>],
     growthData |->
        [revenueGrowth |-> <<>>, netIncomeGrowth |-> <<>>, years |-> <<>>],
     debtLiquidityData |->
        [debtRatio |-> <<>>, currentRatio |-> <<>>, years |-> <<>>]]

-----------------------------------------------------------------------------
(* Parts of the state an operation does not use *)

GrowthIdle ==
    /\ current = 0
    /\ previous = 0
    /\ growth = None

RatiosIdle ==
    /\ year_data = <<>>
    /\ ratios = <<>>
    /\ inline_ratios = <<>>

GfmIdle ==
    /\ company_name = ""
    /\ n_items = 0
    /\ seen = <<>>
    /\ years_data = <<>>
    /\ all_years = {}
    /\ all_year_data = <<>>
    /\ target_years = <<>>
    /\ response = <<>>

SaveIdle ==
    /\ corp_code = ""
    /\ bsns_year = None
    /\ n_rows = 0
    /\ financial_data = <<>>
    /\ year_order = <<>>
    /\ current_year = None
    /\ all_ratios = <<>>
    /\ year_index = 0
    /\ n_writes = 0
    /\ session = {}
    /\ metrics = {}
    /\ metrics_before = {}
    /\ latest = <<>>
    /\ null_written = FALSE
    /\ result = NoResult

-----------------------------------------------------------------------------
(* get_financial_metrics as a process *)

CompanyNames == {"Samsung", "Kakao"}

YearStrings == {StrOf(y) : y \in FirstYear..LastYear}

\* the accounts the line items of the model are of
InputAccounts == {Revenue, NetIncome}

\* the (thstrm_amount, frmtrm_amount, bfefrmtrm_amount) a line item may carry
AmountRows ==
    {<< <<1000>>, <<800>>, <<600>> >>,
     << <<100>>, <<80>>, <<-50>> >>,
     << <<0>>, None, <<-20>> >>}

Items ==
    {[bsns_year |-> y, account_nm |-> a, thstrm_amount |-> t[1],
      frmtrm_amount |-> t[2], bfefrmtrm_amount |-> t[3]] :
        y \in YearStrings, a \in InputAccounts, t \in AmountRows}

Init ==
    /\ pc = "gfm_items"
    /\ company_name \in CompanyNames
    /\ n_items = 0
    /\ seen = <<>>
    /\ years_data = <<>>
    /\ all_years = {}
    /\ all_year_data = <<>>
    /\ target_years = <<>>
    /\ response = <<>>
    /\ GrowthIdle
    /\ RatiosIdle
    /\ SaveIdle

\* lines 211-225: the next item of financial_data
GfmItem ==
    /\ pc = "gfm_items"
    /\ n_items < MaxItems
    /\ \E it \in Items :
        /\ all_years' = all_years \cup {it.bsns_year}
        /\ years_data' = GfmFoldItem(years_data, it)
    /\ n_items' = n_items + 1
    /\ UNCHANGED <<pc, company_name, seen, all_year_data, target_years,
                   response, growthVars, ratioVars, saveVars>>

\* lines 227-228: no item was read
GfmEmpty ==
    /\ pc = "gfm_items"
    /\ DOMAIN years_data = {}
    /\ response' = _empty_metrics_response(company_name)
    /\ pc' = "gfm_returned"
    /\ UNCHANGED <<company_name, n_items, seen, years_data, all_years,
                   all_year_data, target_years, growthVars, ratioVars, saveVars>>

\* lines 230-265
GfmAggregate ==
    /\ pc = "gfm_items"
    /\ DOMAIN years_data # {}
    /\ all_year_data' = AllYearData(all_years, years_data)
    /\ target_years' = TargetYears(all_year_data')
    /\ pc' = "gfm_aggregated"
    /\ UNCHANGED <<company_name, n_items, seen, years_data, all_years,
                   response, growthVars, ratioVars, saveVars>>

\* lines 267-396
GfmSeries ==
    /\ pc = "gfm_aggregated"
    /\ response' = MetricsResponse(company_name, target_years, all_year_data)
    /\ pc' = "gfm_returned"
    /\ UNCHANGED <<company_name, n_items, seen, years_data, all_years,
                   all_year_data, target_years, growthVars, ratioVars, saveVars>>

Next == GfmItem \/ GfmEmpty \/ GfmAggregate \/ GfmSeries

Spec == Init /\ [][Next]_vars

-----------------------------------------------------------------------------
(* calculate_and_save_ratios: reading the rows (lines 88-103) *)

\* float(x) if x is not None else 0
FloatIfNotNone(raw) == IF raw = None THEN 0 ELSE raw[1]

\* the {'thstrm', 'frmtrm', 'bfefrmtrm'} dict of lines 99-103
SaveEntry(row) ==
    [thstrm |-> FloatIfNotNone(row[2]),
     frmtrm |-> FloatIfNotNone(row[3]),
     bfefrmtrm |-> FloatIfNotNone(row[4])]

\* lines 92-103: one pass of the loop body on financial_data
\* (a row is <<account_nm, thstrm_amount, frmtrm_amount, bfefrmtrm_amount,
\* bsns_year>>, counted from 1)
SaveFoldRow(fd, row) ==
    LET year == row[5]
        accounts == Get(fd, year, <<>>)
    IN  Put(fd, year, Put(accounts, row[1], SaveEntry(row)))

\* the row of the financials table a line item is stored as
RowOf(it) ==
    <<it.account_nm, it.thstrm_amount, it.frmtrm_amount, it.bfefrmtrm_amount,
      it.bsns_year>>

-----------------------------------------------------------------------------
(* _save_ratios_to_db and the session (lines 124-158, 114, 121) *)

\* the list of lines 126-137, in its order
MetricOrder ==
    <<"debt_ratio", "current_ratio", "operating_profit_ratio", "net_profit_ratio",
      "roe", "roa", "debt_dependency", "sales_growth", "operating_profit_growth",
      "eps_growth">>

MetricRow(corp, year, name, value) ==
    [corp_code |-> corp, bsns_year |-> year, metric_name |-> name,
     metric_value |-> value]

KeyOf(row) == <<row.corp_code, row.bsns_year, row.metric_name>>

\* a plausible bug: the test 'is not None' left out, null values written too
WritesOf_all(corp, year, rs) ==
    [i \in 1..Len(MetricOrder) |->
        MetricRow(corp, year, MetricOrder[i], Get(rs, MetricOrder[i], None))]

\* lines 140-158: the INSERTs _save_ratios_to_db executes, in their order
WritesOf(corp, year, rs) ==
    LET all == [i \in 1..Len(MetricOrder) |->
                    MetricRow(corp, year, MetricOrder[i], Get(rs, MetricOrder[i], None))]
        NotNull(row) == row.metric_value # None
    IN  SelectSeq(all, NotNull)

\* a plausible bug: a plain INSERT, without the ON CONFLICT clause
Upsert_insert(table, row) == table \cup {row}

\* lines 142-151: INSERT ... ON CONFLICT (corp_code, bsns_year, metric_name)
\* DO UPDATE SET metric_value = EXCLUDED.metric_value
Upsert(table, row) == {r \in table : KeyOf(r) # KeyOf(row)} \cup {row}

\* the first n of the writes, executed in the session
RECURSIVE Execute(_, _, _)
Execute(table, writes, n) ==
    IF n = 0 THEN table
    ELSE Upsert(Execute(table, writes, n - 1), writes[n])

\* a plausible bug: the except clause without the rollback
Rollback_missing(in_session, committed) == in_session

\* line 121: db_session.rollback()
Rollback(in_session, committed) == committed

\* line 114: db_session.commit()
Commit(in_session, committed) == in_session

\* line 117: all_ratios.get(current_year, {}) if current_year else {}
Returned(ratios_by_year, year) ==
    IF year # None THEN Get(ratios_by_year, year, <<>>) ELSE <<>>

-----------------------------------------------------------------------------
(* calculate_and_save_ratios as a process, run after run *)

CorpCodes == {"00126380"}

\* the fiscal years the financials table has rows of
SaveYears == {StrOf(LastYear - 1), StrOf(LastYear)}

\* the amounts a row of the financials table may carry
SaveAmountRows ==
    {<< <<1000>>, <<800>>, <<600>> >>,
     << <<0>>, None, <<-20>> >>}

Rows ==
    {<<a, t[1], t[2], t[3], y>> :
        a \in InputAccounts, t \in SaveAmountRows, y \in SaveYears}

\* the non-null values of a run, per key
ComputedBy(corp, ratios_by_year) ==
    LET keys == {<<corp, y, MetricOrder[i]>> : y \in DOMAIN ratios_by_year,
                                                i \in 1..Len(MetricOrder)}
        set == {k \in keys : Get(ratios_by_year[k[2]], k[3], None) # None}
    IN  [k \in set |-> ratios_by_year[k[2]][k[3]]]

SaveInit ==
    /\ pc = "save_idle"
    /\ corp_code = ""
    /\ bsns_year = None
    /\ n_rows = 0
    /\ financial_data = <<>>
    /\ year_order = <<>>
    /\ current_year = None
    /\ all_ratios = <<>>
    /\ year_index = 0
    /\ n_writes = 0
    /\ session = {}
    /\ metrics = {}
    /\ metrics_before = {}
    /\ latest = <<>>
    /\ null_written = FALSE
    /\ result = NoResult
    /\ GrowthIdle
    /\ RatiosIdle
    /\ GfmIdle

\* lines 51-89: a call, and the query executed
SaveBegin ==
    /\ pc \in {"save_idle", "save_returned", "save_raised"}
    /\ corp_code' \in CorpCodes
    /\ bsns_year' \in {None} \cup SaveYears
    /\ n_rows' = 0
    /\ financial_data' = <<>>
    /\ year_order' = <<>>
    /\ current_year' = None
    /\ all_ratios' = <<>>
    /\ year_index' = 1
    /\ n_writes' = 0
    /\ metrics_before' = metrics
    /\ result' = NoResult
    /\ pc' = "save_rows"
    /\ UNCHANGED <<session, metrics, latest, null_written,
                   growthVars, ratioVars, gfmVars>>

\* lines 91-103: the next row of the result; the query of lines 67-72
\* yields the rows of bsns_year, that of lines 75-85 the rows by
\* descending bsns_year
SaveRow ==
    /\ pc = "save_rows"
    /\ n_rows < MaxRows
    /\ \E row \in Rows :
        /\ IF bsns_year # None THEN row[5] = bsns_year
           ELSE \A i \in 1..Len(year_order) :
                    year_order[i] = row[5] \/ StrLess(row[5], year_order[i])
        /\ current_year' = IF current_year = None THEN row[5] ELSE current_year
        /\ year_order' = IF row[5] \in DOMAIN financial_data
                         THEN year_order ELSE Append(year_order, row[5])
        /\ financial_data' = SaveFoldRow(financial_data, row)
    /\ n_rows' = n_rows + 1
    /\ UNCHANGED <<pc, corp_code, bsns_year, all_ratios, year_index, n_writes,
                   session, metrics, metrics_before, latest, null_written, result,
                   growthVars, ratioVars, gfmVars>>

\* a plausible bug: the dict made anew in each pass of the loop
RecordRatios_reset(ar, year, rs) == [y \in {year} |-> rs]

\* line 109: all_ratios[year] = ratios
RecordRatios(ar, year, rs) == Put(ar, year, rs)

\* lines 107-112: one pass of the loop, every INSERT of the year executed
SaveYear ==
    /\ pc \in {"save_rows", "save_years"}
    /\ year_index <= Len(year_order)
    /\ LET year == year_order[year_index]
           rs == _calculate_ratios(financial_data[year])
           writes == WritesOf(corp_code, year, rs)
       IN  /\ all_ratios' = RecordRatios(all_ratios, year, rs)
           /\ session' = Execute(session, writes, Len(writes))
           /\ n_writes' = n_writes + Len(writes)
           /\ null_written' =
                (null_written \/ \E i \in 1..Len(writes) : writes[i].metric_value = None)
    /\ year_index' = year_index + 1
    /\ pc' = "save_years"
    /\ UNCHANGED <<corp_code, bsns_year, n_rows, financial_data, year_order,
                   current_year, metrics, metrics_before, latest, result,
                   growthVars, ratioVars, gfmVars>>

\* lines 107-112 and 119-122: the k-th INSERT of the year raises, after the
\* k - 1 before it were executed; the session is rolled back and the
\* exception raised again
SaveYearFails ==
    /\ pc \in {"save_rows", "save_years"}
    /\ year_index <= Len(year_order)
    /\ LET year == year_order[year_index]
           rs == _calculate_ratios(financial_data[year])
           writes == WritesOf(corp_code, year, rs)
       IN  /\ \E k \in 1..Len(writes) :
                /\ session' = Rollback(Execute(session, writes, k - 1), metrics)
                /\ n_writes' = n_writes + k
                /\ null_written' =
                    (null_written \/ \E i \in 1..k : writes[i].metric_value = None)
           /\ all_ratios' = RecordRatios(all_ratios, year, rs)
    /\ result' = RaisedResult
    /\ pc' = "save_raised"
    /\ UNCHANGED <<corp_code, bsns_year, n_rows, financial_data, year_order,
                   current_year, year_index, metrics, metrics_before, latest,
                   growthVars, ratioVars, gfmVars>>

\* lines 114-117: the commit, and the ratios of current_year returned
SaveCommit ==
    /\ pc \in {"save_rows", "save_years"}
    /\ year_index > Len(year_order)
    /\ metrics' = Commit(session, metrics)
    /\ latest' = [k \in DOMAIN latest \cup DOMAIN ComputedBy(corp_code, all_ratios) |->
                    IF k \in DOMAIN ComputedBy(corp_code, all_ratios)
                    THEN ComputedBy(corp_code, all_ratios)[k] ELSE latest[k]]
    /\ result' = [raised |-> FALSE, value |-> Returned(all_ratios, current_year)]
    /\ pc' = "save_returned"
    /\ UNCHANGED <<corp_code, bsns_year, n_rows, financial_data, year_order,
                   current_year, all_ratios, year_index, n_writes, session,
                   metrics_before, null_written, growthVars, ratioVars, gfmVars>>

\* lines 114 and 119-122: the commit raises
SaveCommitFails ==
    /\ pc \in {"save_rows", "save_years"}
    /\ year_index > Len(year_order)
    /\ session' = Rollback(session, metrics)
    /\ result' = RaisedResult
    /\ pc' = "save_raised"
    /\ UNCHANGED <<corp_code, bsns_year, n_rows, financial_data, year_order,
                   current_year, all_ratios, year_index, n_writes, metrics,
                   metrics_before, latest, null_written, growthVars, ratioVars,
                   gfmVars>>

SaveNext ==
    SaveBegin \/ SaveRow \/ SaveYear \/ SaveYearFails \/ SaveCommit \/ SaveCommitFails

SpecSave == SaveInit /\ [][SaveNext]_vars

-----------------------------------------------------------------------------
(* The two folds of line items side by side, on the same items *)

FoldInit ==
    /\ pc = "fold"
    /\ seen = <<>>
    /\ years_data = <<>>
    /\ financial_data = <<>>
    /\ company_name = ""
    /\ n_items = 0
    /\ all_years = {}
    /\ all_year_data = <<>>
    /\ target_years = <<>>
    /\ response = <<>>
    /\ corp_code = ""
    /\ bsns_year = None
    /\ n_rows = 0
    /\ year_order = <<>>
    /\ current_year = None
    /\ all_ratios = <<>>
    /\ year_index = 0
    /\ n_writes = 0
    /\ session = {}
    /\ metrics = {}
    /\ metrics_before = {}
    /\ latest = <<>>
    /\ null_written = FALSE
    /\ result = NoResult
    /\ GrowthIdle
    /\ RatiosIdle

\* lines 215-225 and lines 92-103, each on the next item
FoldItem ==
    /\ pc = "fold"
    /\ Len(seen) < MaxFold
    /\ \E it \in Items :
        /\ seen' = Append(seen, it)
        /\ years_data' = GfmFoldItem(years_data, it)
        /\ financial_data' = SaveFoldRow(financial_data, RowOf(it))
    /\ UNCHANGED <<pc, company_name, n_items, all_years, all_year_data,
                   target_years, response, corp_code, bsns_year, n_rows,
                   year_order, current_year, all_ratios, year_index, n_writes,
                   session, metrics, metrics_before, latest, null_written, result,
                   growthVars, ratioVars>>

FoldNext == FoldItem

SpecFold == FoldInit /\ [][FoldNext]_vars

-----------------------------------------------------------------------------
(* The growth calculator on its own: every (current, previous) pair *)

GrowthAmounts == (0 - MaxAmount)..MaxAmount

GrowthInit ==
    /\ pc = "growth_call"
    /\ current \in GrowthAmounts
    /\ previous \in GrowthAmounts
    /\ growth = None
    /\ RatiosIdle
    /\ GfmIdle
    /\ SaveIdle

GrowthCall ==
    /\ pc = "growth_call"
    /\ growth' = _calculate_growth_rate(current, previous)
    /\ pc' = "growth_done"
    /\ UNCHANGED <<current, previous, ratioVars, gfmVars, saveVars>>

GrowthNext == GrowthCall

SpecGrowth == GrowthInit /\ [][GrowthNext]_vars

-----------------------------------------------------------------------------
(* The ratio calculators on their own: every one-year account map *)

\* the entries an account of the year may hold
RatioEntries ==
    {[thstrm |-> 0, frmtrm |-> 4, bfefrmtrm |-> 0],
     [thstrm |-> 2, frmtrm |-> 0, bfefrmtrm |-> 3],
     [thstrm |-> -3, frmtrm |-> 2, bfefrmtrm |-> -1]}

YearMaps == UNION {[S -> RatioEntries] : S \in SUBSET Accounts}

RatiosInit ==
    /\ pc = "ratios_call"
    /\ year_data \in YearMaps
    /\ ratios = <<>>
    /\ inline_ratios = <<>>
    /\ GrowthIdle
    /\ GfmIdle
    /\ SaveIdle

RatiosCall ==
    /\ pc = "ratios_call"
    /\ ratios' = _calculate_ratios(year_data)
    /\ inline_ratios' = InlineRatios(year_data)
    /\ pc' = "ratios_done"
    /\ UNCHANGED <<year_data, growthVars, gfmVars, saveVars>>

RatiosNext == RatiosCall

SpecRatios == RatiosInit /\ [][RatiosNext]_vars

-----------------------------------------------------------------------------
(* C2 *)

\* the rule of the claim, written as its four cases
GrowthRule(cur, prev) ==
    CASE prev = 0 -> None
      [] prev < 0 /\ cur > 0 -> <<100, 1>>
      [] prev > 0 /\ cur < 0 -> <<-100, 1>>
      [] OTHER -> Rat((cur - prev) * 100, Abs(prev))

\* C2: for every pair (current, previous) _calculate_growth_rate returns
\* null when previous = 0, else exactly 100 when previous < 0 < current,
\* else exactly -100 when current < 0 < previous, else
\* ((current - previous) / abs(previous)) * 100; previous = -50,
\* current = -20 gives 60.
C2_GrowthRule ==
    pc = "growth_done" =>
        /\ growth = GrowthRule(current, previous)
        /\ (previous = -50 /\ current = -20) => growth = <<60, 1>>

C2_Witness ==
    /\ pc = "growth_done"
    /\ previous = -50
    /\ current = -20
    /\ growth = <<60, 1>>

-----------------------------------------------------------------------------
(* C3 *)

\* numerator and denominator account of each of the seven ratios
RatioTable ==
    [debt_ratio |-> <<TotalLiabilities, TotalEquity>>,
     current_ratio |-> <<CurrentAssets, CurrentLiabilities>>,
     debt_dependency |-> <<TotalLiabilities, TotalAssets>>,
     operating_profit_ratio |-> <<OperatingProfit, Revenue>>,
     net_profit_ratio |-> <<NetIncome, Revenue>>,
     roe |-> <<NetIncome, TotalEquity>>,
     roa |-> <<NetIncome, TotalAssets>>]

\* the current amount of an account, 0 when the account is absent
CurrentOrZero(yd, account) ==
    IF account \in DOMAIN yd THEN yd[account].thstrm ELSE 0

\* C3: _calculate_ratios counts an absent account as 0 and returns, for
\* each of the seven ratios, null exactly when that ratio's own denominator
\* is 0 and numerator / denominator * 100 otherwise; it never raises.
C3_RatiosPerDenominator ==
    pc = "ratios_done" =>
        /\ ratios # RaisedDict
        /\ \A r \in RatioNames :
            LET n == CurrentOrZero(year_data, RatioTable[r][1])
                d == CurrentOrZero(year_data, RatioTable[r][2])
            IN  /\ (ratios[r] = None) <=> (d = 0)
                /\ d # 0 => ratios[r] = Rat(n * 100, d)

\* a year without revenue: null margins, while ROE is computed
C3_Witness ==
    /\ pc = "ratios_done"
    /\ Revenue \notin DOMAIN year_data
    /\ ratios # RaisedDict
    /\ ratios.net_profit_ratio = None
    /\ ratios.roe = <<-150, 1>>

-----------------------------------------------------------------------------
(* C1 *)

\* the length a growth series has beside a years list of length n
GrowthLength(n) == IF n <= 1 THEN 0 ELSE n - 1

\* C1: in the result of get_financial_metrics each ratio series has as many
\* entries as the years list it is reported with, each growth series has
\* len(years) - 1 entries (0 when len(years) <= 1), and the growth years
\* list is the target-year list with its last element dropped.
C1_SeriesLengths ==
    pc = "gfm_returned" =>
        LET fm == response.financialMetrics
            gd == response.growthData
            dl == response.debtLiquidityData
        IN  /\ \A k \in {"operatingMargin", "netMargin", "roe", "roa"} :
                Len(fm[k]) = Len(fm.years)
            /\ \A k \in {"debtRatio", "currentRatio"} : Len(dl[k]) = Len(dl.years)
            /\ fm.years = target_years
            /\ dl.years = target_years
            /\ \A k \in {"revenueGrowth", "netIncomeGrowth"} :
                /\ Len(gd[k]) = GrowthLength(Len(target_years))
                /\ Len(gd[k]) = Len(gd.years)
            /\ gd.years = [i \in 1..GrowthLength(Len(target_years)) |-> target_years[i]]

C1_Witness ==
    /\ pc = "gfm_returned"
    /\ n_items > 0
    /\ Len(response.financialMetrics.years) = 3
    /\ Len(response.financialMetrics.netMargin) = 3
    /\ Len(response.growthData.revenueGrowth) = 2
    /\ Len(response.growthData.years) = 2

-----------------------------------------------------------------------------
(* C4 *)

\* C4: given an empty line-item sequence get_financial_metrics returns the
\* empty result: every ratio and growth series is empty, the three years
\* lists are empty, and companyName is the name passed in.
C4_EmptyInput ==
    (pc = "gfm_returned" /\ n_items = 0) =>
        /\ response.companyName = company_name
        /\ \A k \in {"operatingMargin", "netMargin", "roe", "roa", "years"} :
            response.financialMetrics[k] = <<>>
        /\ \A k \in {"revenueGrowth", "netIncomeGrowth", "years"} :
            response.growthData[k] = <<>>
        /\ \A k \in {"debtRatio", "currentRatio", "years"} :
            response.debtLiquidityData[k] = <<>>

C4_Witness ==
    /\ pc = "gfm_returned"
    /\ n_items = 0
    /\ company_name = "Kakao"
    /\ response.companyName = "Kakao"
    /\ response.financialMetrics.years = <<>>

-----------------------------------------------------------------------------
(* C5 *)

\* C5: for a target year that has a directly filed entry for an account, the
\* amount the computations use for (year, account) is that entry's current
\* amount: the aggregated map holds it, and the year's ratios and the growth
\* of a pair of directly filed years are those of the filed current amounts.
C5_DirectFilingWins ==
    (pc = "gfm_returned" /\ n_items > 0) =>
        \A i \in 1..Len(target_years) :
            LET y == target_years[i]
            IN  y \in DOMAIN years_data =>
                /\ \A a \in DOMAIN years_data[y] :
                    /\ a \in DOMAIN all_year_data[y]
                    /\ all_year_data[y][a].thstrm = years_data[y][a].thstrm
                /\ response.financialMetrics.netMargin[i]
                        = InlineRatios(years_data[y]).netMargin
                /\ response.financialMetrics.operatingMargin[i]
                        = InlineRatios(years_data[y]).operatingMargin
                /\ (i < Len(target_years) /\ target_years[i + 1] \in DOMAIN years_data) =>
                    /\ response.growthData.revenueGrowth[i]
                            = PairGrowth(years_data, y, target_years[i + 1]).revenueGrowth
                    /\ response.growthData.netIncomeGrowth[i]
                            = PairGrowth(years_data, y, target_years[i + 1]).netIncomeGrowth

\* the filing of 2023 implies a revenue of 800 for 2022, the filing of 2022
\* reports 100, and 100 is used
C5_Witness ==
    /\ pc = "gfm_returned"
    /\ {StrOf(2023), StrOf(2022)} \subseteq DOMAIN years_data
    /\ Revenue \in DOMAIN years_data[StrOf(2023)]
    /\ Revenue \in DOMAIN years_data[StrOf(2022)]
    /\ years_data[StrOf(2023)][Revenue].frmtrm = 800
    /\ years_data[StrOf(2022)][Revenue].thstrm = 100
    /\ all_year_data[StrOf(2022)][Revenue].thstrm = 100
    /\ response.growthData.revenueGrowth[1] = <<900, 1>>

-----------------------------------------------------------------------------
(* C7 *)

\* the at most three most recent of the directly filed years
RecentFiled ==
    {y \in DOMAIN years_data :
        Cardinality({z \in DOMAIN years_data : IntOf(z) > IntOf(y)}) < 3}

\* directly filed years and the years implied by the recent filings
KnownYears ==
    DOMAIN years_data
        \cup {StrOf(IntOf(y) - k) : y \in RecentFiled, k \in {1, 2}}

\* C7: the target-year list is strictly descending, has at most 3 entries,
\* is the 3 most recent of (directly filed years and implied years), holds
\* only years of the aggregated map, and is shorter than 3 exactly when
\* fewer than 3 such years exist.
C7_TargetYears ==
    (pc \in {"gfm_aggregated", "gfm_returned"} /\ n_items > 0) =>
        /\ \A i \in 1..Len(target_years) : \A j \in 1..Len(target_years) :
            i < j => IntOf(target_years[i]) > IntOf(target_years[j])
        /\ Len(target_years) <= 3
        /\ LET known == KnownYears
           IN  /\ {target_years[i] : i \in 1..Len(target_years)}
                    = {y \in known :
                        Cardinality({z \in known : IntOf(z) > IntOf(y)}) < 3}
               /\ Len(target_years) = Min(3, Cardinality(known))
        /\ \A i \in 1..Len(target_years) : target_years[i] \in DOMAIN all_year_data

\* three filed years with a gap below the newest
C7_Witness ==
    /\ pc = "gfm_aggregated"
    /\ DOMAIN years_data = {StrOf(2023), StrOf(2021), StrOf(2020)}
    /\ target_years = <<StrOf(2023), StrOf(2022), StrOf(2021)>>

-----------------------------------------------------------------------------
(* C8 *)

\* the one-year map that holds, as current amounts, the amounts of `field`
\* of a filing
Column(filing, field) == [a \in DOMAIN filing |-> [thstrm |-> filing[a][field]]]

\* the amount of `field` of an account of a filing, 0 when it has none
FiledOrZero(filing, account, field) ==
    IF account \in DOMAIN filing THEN filing[account][field] ELSE 0

\* C8: with a single filing, of year Y, the target years are Y, Y-1, Y-2,
\* their ratios are those of the filing's current, prior and priorPrior
\* amounts, and the growth of (Y, Y-1) is the growth rule on (current,
\* prior); the filing of 2023 with revenue 1000/800/600 and net income
\* 100/80/-50 gives net margins 10 and 10 and a revenue growth of 25.
C8_SingleFiling ==
    (pc = "gfm_returned" /\ Cardinality(DOMAIN years_data) = 1) =>
        LET y == CHOOSE x \in DOMAIN years_data : TRUE
            filing == years_data[y]
            fm == response.financialMetrics
            dl == response.debtLiquidityData
            Reported(i) ==
                [operatingMargin |-> fm.operatingMargin[i], netMargin |-> fm.netMargin[i],
                 roe |-> fm.roe[i], debtRatio |-> dl.debtRatio[i],
                 roa |-> fm.roa[i], currentRatio |-> dl.currentRatio[i]]
        IN  /\ fm.years = <<y, StrOf(IntOf(y) - 1), StrOf(IntOf(y) - 2)>>
            /\ Reported(1) = InlineRatios(Column(filing, "thstrm"))
            /\ Reported(2) = InlineRatios(Column(filing, "frmtrm"))
            /\ Reported(3) = InlineRatios(Column(filing, "bfefrmtrm"))
            /\ response.growthData.revenueGrowth[1]
                    = GrowthRule(FiledOrZero(filing, Revenue, "thstrm"),
                                 FiledOrZero(filing, Revenue, "frmtrm"))
            /\ response.growthData.netIncomeGrowth[1]
                    = GrowthRule(FiledOrZero(filing, NetIncome, "thstrm"),
                                 FiledOrZero(filing, NetIncome, "frmtrm"))
            /\ (/\ y = StrOf(2023)
                /\ DOMAIN filing = {Revenue, NetIncome}
                /\ filing[Revenue] = [thstrm |-> 1000, frmtrm |-> 800, bfefrmtrm |-> 600]
                /\ filing[NetIncome] = [thstrm |-> 100, frmtrm |-> 80, bfefrmtrm |-> -50])
               => /\ fm.years = << <<2, 0, 2, 3>>, <<2, 0, 2, 2>>, <<2, 0, 2, 1>> >>
                  /\ fm.netMargin[1] = <<10, 1>>
                  /\ fm.netMargin[2] = <<10, 1>>
                  /\ response.growthData.revenueGrowth[1] = <<25, 1>>

C8_Witness ==
    /\ pc = "gfm_returned"
    /\ DOMAIN years_data = {StrOf(2023)}
    /\ DOMAIN years_data[StrOf(2023)] = {Revenue, NetIncome}
    /\ years_data[StrOf(2023)][Revenue].thstrm = 1000
    /\ years_data[StrOf(2023)][NetIncome].thstrm = 100
    /\ response.financialMetrics.netMargin = << <<10, 1>>, <<10, 1>>, <<-25, 3>> >>
    /\ response.growthData.revenueGrowth = << <<25, 1>>, <<100, 3>> >>

-----------------------------------------------------------------------------
(* C6 *)

\* the amounts of a line item, a null amount counting as 0
AmountsOf(it) ==
    LET Num(raw) == IF raw = None THEN 0 ELSE raw[1]
    IN  [thstrm |-> Num(it.thstrm_amount), frmtrm |-> Num(it.frmtrm_amount),
         bfefrmtrm |-> Num(it.bfefrmtrm_amount)]

\* the positions in `seen` of the items of a year and account
PositionsOf(y, a) ==
    {i \in 1..Len(seen) : seen[i].bsns_year = y /\ seen[i].account_nm = a}

FirstOf(y, a) == seen[CHOOSE i \in PositionsOf(y, a) : \A j \in PositionsOf(y, a) : i <= j]

LastOf(y, a) == seen[CHOOSE i \in PositionsOf(y, a) : \A j \in PositionsOf(y, a) : i >= j]

\* C6 as claimed: both the map of get_financial_metrics and the map of
\* calculate_and_save_ratios hold, for a year and account, the amounts of
\* the last item of that year and account.
C6_LastWriteWinsInBoth ==
    \A y \in YearStrings : \A a \in InputAccounts :
        PositionsOf(y, a) # {} =>
            /\ financial_data[y][a] = AmountsOf(LastOf(y, a))
            /\ years_data[y][a] = AmountsOf(LastOf(y, a))

\* C6 amended: the map of calculate_and_save_ratios holds the amounts of
\* the last item of a year and account, the map of get_financial_metrics
\* those of the first one; both hold exactly the years and accounts read.
C6_LastInSaveFirstInMetrics ==
    /\ DOMAIN years_data = {seen[i].bsns_year : i \in 1..Len(seen)}
    /\ DOMAIN financial_data = DOMAIN years_data
    /\ \A y \in YearStrings : \A a \in InputAccounts :
        IF PositionsOf(y, a) # {}
        THEN /\ financial_data[y][a] = AmountsOf(LastOf(y, a))
             /\ years_data[y][a] = AmountsOf(FirstOf(y, a))
        ELSE y \in DOMAIN years_data =>
                /\ a \notin DOMAIN years_data[y]
                /\ a \notin DOMAIN financial_data[y]

\* revenue of 2023 read twice, as 1000 and then as 100
C6_Witness ==
    /\ Len(seen) = 2
    /\ seen[1].bsns_year = StrOf(2023) /\ seen[2].bsns_year = StrOf(2023)
    /\ seen[1].account_nm = Revenue /\ seen[2].account_nm = Revenue
    /\ seen[1].thstrm_amount = <<1000>> /\ seen[2].thstrm_amount = <<100>>
    /\ years_data[StrOf(2023)][Revenue].thstrm = 1000
    /\ financial_data[StrOf(2023)][Revenue].thstrm = 100

-----------------------------------------------------------------------------
(* C9 *)

\* the table `before` with the non-null values of a run upserted
WithRun(before, corp, ratios_by_year) ==
    LET computed == ComputedBy(corp, ratios_by_year)
    IN  {r \in before : KeyOf(r) \notin DOMAIN computed}
            \cup {MetricRow(k[1], k[2], k[3], computed[k]) : k \in DOMAIN computed}

\* C9: the writes of a run of calculate_and_save_ratios are committed
\* together or not at all: nothing is committed while the run is under way;
\* when a write (or the commit) fails the exception reaches the caller, the
\* session is rolled back and the table is as it was before the run; when
\* the run returns the table holds the writes of every year of the run.
C9_AllYearsOrNone ==
    /\ pc \in {"save_rows", "save_years"} => metrics = metrics_before
    /\ pc = "save_raised" =>
        /\ result.raised
        /\ metrics = metrics_before
        /\ session = metrics_before
    /\ pc = "save_returned" =>
        /\ ~result.raised
        /\ result.value = Returned(all_ratios, current_year)
        /\ DOMAIN all_ratios = DOMAIN financial_data
        /\ metrics = WithRun(metrics_before, corp_code, all_ratios)
        /\ session = metrics

\* the first write of the second year fails after the first year was written
C9_Witness ==
    /\ pc = "save_raised"
    /\ Len(year_order) = 2
    /\ year_index = 2
    /\ ComputedBy(corp_code, all_ratios) # <<>>
    /\ \E k \in DOMAIN ComputedBy(corp_code, all_ratios) : k[2] = year_order[1]
    /\ metrics = {}
    /\ session = {}

-----------------------------------------------------------------------------
(* C10 *)

\* C10: the metrics table (and the session's view of it) holds at most one
\* row per (corp_code, bsns_year, metric_name); after committed runs a key
\* has a row exactly when some committed run computed a non-null value for
\* it, and the row holds the value of the most recent such run; no INSERT is
\* executed for a null value.
C10_UpsertPerKey ==
    /\ \A r1 \in session : \A r2 \in session : KeyOf(r1) = KeyOf(r2) => r1 = r2
    /\ \A r1 \in metrics : \A r2 \in metrics : KeyOf(r1) = KeyOf(r2) => r1 = r2
    /\ {KeyOf(r) : r \in metrics} = DOMAIN latest
    /\ \A r \in metrics : r.metric_value = latest[KeyOf(r)]
    /\ ~null_written
    /\ \A r \in session \cup metrics : r.metric_value # None

\* a second committed run replaces a stored value by another one and
\* computes null for a metric
C10_Witness ==
    /\ pc = "save_returned"
    /\ \E r1 \in metrics_before : \E r2 \in metrics :
        /\ KeyOf(r1) = KeyOf(r2)
        /\ r1.metric_value # r2.metric_value
    /\ \E y \in DOMAIN all_ratios : all_ratios[y].sales_growth = None

-----------------------------------------------------------------------------
(* C11 *)

\* whether year y has a directly filed entry for account a
Filed(y, a) == y \in DOMAIN years_data /\ a \in DOMAIN years_data[y]

\* whether the aggregated map of year y holds account a with amount v
Holds(y, a, v) ==
    /\ y \in DOMAIN all_year_data
    /\ a \in DOMAIN all_year_data[y]
    /\ all_year_data[y][a].thstrm = v

\* C11 as claimed: for every anchor year Y and account a of its filing, the
\* aggregated map of Y-1 holds a with Y's prior amount whenever Y-1 has no
\* directly filed entry for a, and that of Y-2 holds a with Y's priorPrior
\* amount whenever Y-2 has no directly filed entry for a.
C11_ImpliedPerAccount ==
    pc \in {"gfm_aggregated", "gfm_returned"} =>
        \A y \in RecentFiled : \A a \in DOMAIN years_data[y] :
            /\ ~Filed(YearBefore(y, 1), a) =>
                    Holds(YearBefore(y, 1), a, years_data[y][a].frmtrm)
            /\ ~Filed(YearBefore(y, 2), a) =>
                    Holds(YearBefore(y, 2), a, years_data[y][a].bfefrmtrm)

\* C11 amended: the map of an anchor year is its own filing and nothing
\* else; for an anchor year Y and account a of its filing, Y-2 holds a with
\* Y's priorPrior amount when Y-2 is not an anchor year, and Y-1 holds a
\* with Y's prior amount when neither Y-1 nor Y+1 is an anchor year (when
\* Y+1 is one, Y-1 holds the priorPrior amounts of Y+1 instead).
C11_ImpliedPerYear ==
    pc \in {"gfm_aggregated", "gfm_returned"} =>
        LET anchors == RecentFiled
        IN  \A y \in anchors :
                LET before == YearBefore(y, 1)
                    before2 == YearBefore(y, 2)
                    after == StrOf(IntOf(y) + 1)
                IN  /\ all_year_data[y] = years_data[y]
                    /\ before2 \notin anchors =>
                        \A a \in DOMAIN years_data[y] :
                            Holds(before2, a, years_data[y][a].bfefrmtrm)
                    /\ (before \notin anchors /\ after \notin anchors) =>
                        \A a \in DOMAIN years_data[y] :
                            Holds(before, a, years_data[y][a].frmtrm)
                    /\ (before \notin anchors /\ after \in anchors) =>
                        DOMAIN all_year_data[before] = DOMAIN years_data[after]

\* 2023 and 2022 are filed with revenue: 2021 holds the priorPrior amount of
\* 2023 (600), not the prior amount of 2022 (80)
C11_Witness ==
    /\ pc = "gfm_aggregated"
    /\ DOMAIN years_data = {StrOf(2023), StrOf(2022)}
    /\ Filed(StrOf(2023), Revenue)
    /\ Filed(StrOf(2022), Revenue)
    /\ years_data[StrOf(2023)][Revenue].bfefrmtrm = 600
    /\ years_data[StrOf(2022)][Revenue].frmtrm = 80
    /\ Holds(StrOf(2021), Revenue, 600)

-----------------------------------------------------------------------------
(* C12 *)

\* the current amount of an account in a year of the aggregated map, an
\* absent account counting as 0
AggregatedOrZero(year, account) == CurrentOrZero(all_year_data[year], account)

\* C12: for every adjacent pair (target_years[i], target_years[i+1]),
\* revenueGrowth[i] is the growth rule applied to the two years' revenue and
\* netIncomeGrowth[i] the same rule applied to their net income, an absent
\* account counting as 0; both are null when a year of the pair is absent
\* from the aggregated map.
C12_PairwiseGrowth ==
    (pc = "gfm_returned" /\ n_items > 0) =>
        /\ Len(response.growthData.revenueGrowth) = Len(target_years) - 1
        /\ Len(response.growthData.netIncomeGrowth) = Len(target_years) - 1
        /\ \A i \in 1..(Len(target_years) - 1) :
            LET y == target_years[i]
                p == target_years[i + 1]
            IN  IF y \in DOMAIN all_year_data /\ p \in DOMAIN all_year_data
                THEN /\ response.growthData.revenueGrowth[i] =
                            GrowthRule(AggregatedOrZero(y, Revenue),
                                       AggregatedOrZero(p, Revenue))
                     /\ response.growthData.netIncomeGrowth[i] =
                            GrowthRule(AggregatedOrZero(y, NetIncome),
                                       AggregatedOrZero(p, NetIncome))
                ELSE /\ response.growthData.revenueGrowth[i] = None
                     /\ response.growthData.netIncomeGrowth[i] = None

\* one filing with net income 100, 80, -50 and no revenue: the net income
\* grows by 25 and then by the fixed 100 of a loss turned into a profit,
\* the revenue growth is null twice
C12_Witness ==
    /\ pc = "gfm_returned"
    /\ DOMAIN years_data = {StrOf(2023)}
    /\ DOMAIN years_data[StrOf(2023)] = {NetIncome}
    /\ target_years = <<StrOf(2023), StrOf(2022), StrOf(2021)>>
    /\ AggregatedOrZero(StrOf(2022), NetIncome) = 80
    /\ AggregatedOrZero(StrOf(2021), NetIncome) = -50
    /\ response.growthData.netIncomeGrowth = << <<25, 1>>, <<100, 1>> >>
    /\ response.growthData.revenueGrowth = <<None, None>>

-----------------------------------------------------------------------------
(* C13 *)

\* the states of a run of calculate_and_save_ratios
InRun == pc \in {"save_rows", "save_years", "save_raised", "save_returned"}

\* whether the run ended with an INSERT that raised
WriteFailed == pc = "save_raised" /\ year_index <= Len(year_order)

\* the years whose pass of the loop has computed its ratios
YearsComputed ==
    {year_order[i] : i \in 1..(IF WriteFailed THEN year_index ELSE year_index - 1)}

\* C13 as claimed: the ratios of every fiscal year are computed before the
\* first write is attempted, so that a failed write leaves the set of
\* computed ratios what it would have been.
C13_AllComputedBeforeFirstWrite ==
    (InRun /\ n_writes > 0) => DOMAIN all_ratios = DOMAIN financial_data

\* C13 amended: the years are taken one after another, each year's ratios
\* computed and then written before the next year's are computed; the
\* computed years are the years of the passes made so far, each with the
\* value _calculate_ratios yields, every row written in the run carries a
\* ratio computed before it, and a failed write ends the run with an
\* exception and the later years not computed.
C13_ComputedYearByYear ==
    InRun =>
        /\ DOMAIN all_ratios = YearsComputed
        /\ \A y \in DOMAIN all_ratios :
                all_ratios[y] = _calculate_ratios(financial_data[y])
        /\ \A r \in session \ metrics :
            /\ r.bsns_year \in DOMAIN all_ratios
            /\ r.metric_value = all_ratios[r.bsns_year][r.metric_name]
        /\ WriteFailed =>
            /\ result.raised
            /\ \A i \in (year_index + 1)..Len(year_order) :
                    year_order[i] \notin DOMAIN all_ratios

\* two years to save: the rows of the first are written while the ratios of
\* the second are not computed yet
C13_Witness ==
    /\ pc = "save_years"
    /\ Len(year_order) = 2
    /\ year_index = 2
    /\ n_writes > 0
    /\ session # metrics
    /\ DOMAIN all_ratios = {year_order[1]}
    /\ year_order[2] \in DOMAIN financial_data

-----------------------------------------------------------------------------
(* C14 *)

\* the six ratios both paths compute, under the names of the inline path
SharedOf(rs) ==
    [operatingMargin |-> rs.operating_profit_ratio,
     netMargin |-> rs.net_profit_ratio,
     roe |-> rs.roe,
     debtRatio |-> rs.debt_ratio,
     roa |-> rs.roa,
     currentRatio |-> rs.current_ratio]

\* whether the year has no revenue or no equity
ZeroRevenueOrEquity(yd) ==
    CurrentOrZero(yd, Revenue) = 0 \/ CurrentOrZero(yd, TotalEquity) = 0

\* C14 as claimed: there is a one-year account map with revenue = 0 or
\* equity = 0 on which _calculate_ratios and the inline computation of
\* get_financial_metrics disagree on one of the six shared ratios (the
\* maps are those the two calculators are called on, before and after the
\* call).
C14_PathsDisagree ==
    /\ pc \in {"ratios_call", "ratios_done"}
    /\ \E yd \in YearMaps :
        /\ ZeroRevenueOrEquity(yd)
        /\ \/ _calculate_ratios(yd) = RaisedDict
           \/ SharedOf(_calculate_ratios(yd)) # InlineRatios(yd)

\* C14 amended: on every one-year account map, those with revenue = 0 or
\* equity = 0 included, the two paths agree on each of the six shared
\* ratios, on whether it is null and on its value.
C14_PathsAgree ==
    pc = "ratios_done" =>
        /\ ratios # RaisedDict
        /\ SharedOf(ratios) = inline_ratios

\* a year with net income and assets, no revenue and an equity of 0: both
\* paths give null margins, a null ROE and debt ratio, and the same ROA
C14_Witness ==
    /\ pc = "ratios_done"
    /\ Revenue \notin DOMAIN year_data
    /\ CurrentOrZero(year_data, TotalEquity) = 0
    /\ TotalEquity \in DOMAIN year_data
    /\ CurrentOrZero(year_data, NetIncome) = 2
    /\ CurrentOrZero(year_data, TotalAssets) = -3
    /\ ratios.roe = None /\ inline_ratios.roe = None
    /\ ratios.net_profit_ratio = None /\ inline_ratios.netMargin = None
    /\ ratios.roa = <<-200, 3>> /\ inline_ratios.roa = <<-200, 3>>

-----------------------------------------------------------------------------
(* C15 *)

\* the most recent directly filed year
MostRecentFiled == SortedDesc(DOMAIN years_data)[1]

\* C15: for a non-empty sequence of line items, get_financial_metrics
\* returns exactly three target years, the consecutive years Y0, Y0-1, Y0-2
\* below the most recent directly filed year Y0, whatever the number of
\* filings and the gaps between the filed years; every ratio series has
\* length 3 and every growth series length 2.
C15_ThreeConsecutiveYears ==
    (pc = "gfm_returned" /\ n_items > 0) =>
        LET y0 == IntOf(MostRecentFiled)
            fm == response.financialMetrics
            gd == response.growthData
            dl == response.debtLiquidityData
        IN  /\ target_years = <<StrOf(y0), StrOf(y0 - 1), StrOf(y0 - 2)>>
            /\ fm.years = target_years
            /\ dl.years = target_years
            /\ gd.years = <<StrOf(y0), StrOf(y0 - 1)>>
            /\ \A k \in {"operatingMargin", "netMargin", "roe", "roa"} : Len(fm[k]) = 3
            /\ \A k \in {"debtRatio", "currentRatio"} : Len(dl[k]) = 3
            /\ \A k \in {"revenueGrowth", "netIncomeGrowth"} : Len(gd[k]) = 2

\* two filings three years apart: the years between them are the targets,
\* the older filing is not
C15_Witness ==
    /\ pc = "gfm_returned"
    /\ DOMAIN years_data = {StrOf(2023), StrOf(2020)}
    /\ response.financialMetrics.years = <<StrOf(2023), StrOf(2022), StrOf(2021)>>
    /\ Len(response.financialMetrics.roe) = 3
    /\ Len(response.growthData.netIncomeGrowth) = 2

-----------------------------------------------------------------------------
(* C16 *)

\* whether the run under way computed null for the key of a stored row
ComputedNull(r) ==
    /\ r.corp_code = corp_code
    /\ r.bsns_year \in DOMAIN all_ratios
    /\ Get(all_ratios[r.bsns_year], r.metric_name, None) = None

\* C16: when a run of calculate_and_save_ratios computes null for a metric
\* of a (company, year) whose row an earlier committed run stored, the row
\* is left as it was, neither deleted nor overwritten: the session holds it
\* during the run and the table holds it after the commit, with a value
\* that is not the null the run computed.
C16_NullLeavesStoredRow ==
    pc \in {"save_years", "save_returned"} =>
        \A r \in metrics_before :
            ComputedNull(r) =>
                /\ r \in session
                /\ r.metric_value # None
                /\ pc = "save_returned" => r \in metrics

\* a committed run finds no previous revenue for a year whose sales growth
\* of 25 an earlier run stored: the row is still in the table
C16_Witness ==
    /\ pc = "save_returned"
    /\ ~result.raised
    /\ \E r \in metrics_before :
        /\ r.metric_name = "sales_growth"
        /\ r.metric_value = <<25, 1>>
        /\ ComputedNull(r)
        /\ r \in metrics
        /\ result.value.sales_growth = None

=============================================================================
